---- MODULE Spec2Model ----
(***************************************************************************)
(* Model of the Dynatrace SLO e-mail workflow (v2.0 scripts):              *)
(*   fetch_slo_data  -> build_markdown_email -> send_email                 *)
(*                   \-> create_ado_ticket (conditional on hasBreach)      *)
(*                                                                         *)
(* Percentages are integers counting quarter-hundredths of a percentage    *)
(* point (1 unit = 0.0025), so 0.005 is 2 units and 0.01 is 4 units.        *)
(* JavaScript values are tagged records: Null, Undefined, Num(n) and       *)
(* Obj(status) for the {status, errorBudget} window objects (errorBudget   *)
(* is only printed, never compared, and is left out).                      *)
(***************************************************************************)
EXTENDS Integers, Sequences, FiniteSets, TLC

VARIABLES
    sloIds,          \* configured SLO ids (fetch_slo_data CONFIGURATION)
    prioritySloIds,  \* configured priority ids (build_markdown_email CONFIGURATION)
    apiValues,       \* what the tenant's SLO API can answer for an SLO: an
                     \* evaluatedPercentage, or Absent when it leaves the SLO out
    metricExpression, \* tenant SLO definitions: id -> filter expression
    syntheticSloConfig, \* ids configured as synthetic SLOs (CONFIGURATION)
    actionRows,      \* rows the tenant's USQL API can report for a user action
    keyUserActions,  \* user actions the tenant has marked as Key User Actions
    sloTarget,       \* tenant SLO definitions: id -> target (Undefined when missing)
    fetchState,      \* "pending" | "running" | "success" | "error"
    periodIdx,       \* position of the fetch loop: index into timePeriods
    batchIndex,      \* position of the fetch loop: index into sloBatches (0-based)
    results,         \* results[period.name]: SLO API records fetched so far
    sloRequests,     \* the getSlo requests issued so far, in order
    entityIdx,       \* position of the entity loop: index into allUserActions (0-based)
    entityLookups,   \* the user actions getEntities was called for, in order
    userActionEntities, \* fetch_slo_data: action name -> entity found so far
    usqlRequests,    \* the USQL queries issued so far: the names of each IN clause
    usqlBatchIndex,  \* position of the USQL loop: index into uaBatches (0-based)
    userActionMetrics, \* fetch_slo_data: action name -> metrics collected so far
    output,          \* value returned by fetch_slo_data (Null until it returns)
    buildState,      \* "pending" | "success" | "error"
    failingSLOs,     \* build_markdown_email: sorted Failing list
    passingSLOs,     \* build_markdown_email: sorted Passing list
    noDataSLOs,      \* build_markdown_email: sorted NoData list
    breachStatus,    \* build_markdown_email: "BREACH" | "OK" | "none"
    trend,           \* build_markdown_email: id -> Trend column of the row
    emoji,           \* build_markdown_email: status emoji of each SLO's row
    userActionTables, \* build_markdown_email: the user actions listed per SLO
    sendState,       \* "pending" | "success"
    adoState,        \* "pending" | "success"
    adoResult,       \* value returned by create_ado_ticket
    workItems        \* number of Azure DevOps work items created

vars == <<sloIds, prioritySloIds, apiValues, sloTarget, metricExpression,
          syntheticSloConfig, actionRows, keyUserActions, fetchState, periodIdx,
          batchIndex, results, sloRequests, entityIdx, entityLookups,
          userActionEntities, usqlRequests, usqlBatchIndex, userActionMetrics,
          output, buildState,
          failingSLOs, passingSLOs, noDataSLOs, breachStatus, trend, emoji,
          userActionTables, sendState, adoState, adoResult, workItems>>

-----------------------------------------------------------------------------
(* JavaScript values *)

Null == [t |-> "null"]
Undefined == [t |-> "undefined"]
Num(n) == [t |-> "number", v |-> n]
Obj(s) == [t |-> "object", status |-> s]

\* x != null (loose inequality: false for null and for undefined)
NotNullish(x) == x.t # "null" /\ x.t # "undefined"
\* truthiness of a value used as a condition
Truthy(x) == \/ x.t = "object"
             \/ x.t = "number" /\ x.v # 0
\* relational operators: null converts to 0, undefined to NaN (always false)
Comparable(x) == x.t = "number" \/ x.t = "null"
ToNumber(x) == IF x.t = "number" THEN x.v ELSE 0
JsLt(x, y) == Comparable(x) /\ Comparable(y) /\ ToNumber(x) < ToNumber(y)
JsGe(x, y) == Comparable(x) /\ Comparable(y) /\ ToNumber(x) >= ToNumber(y)

\* units per percentage point
Pct(n) == n * 400

-----------------------------------------------------------------------------
(* fetch_slo_data: configuration and helpers *)

SLO_BATCH_SIZE == 20
USQL_BATCH_SIZE == 10

timePeriods == <<"day90", "day30", "day7", "current">>

\* variant: the loop stops when fewer than batchSize elements are left
RECURSIVE batchArrayDropPartial(_, _)
batchArrayDropPartial(array, batchSize) ==
    IF Len(array) < batchSize THEN <<>>
    ELSE <<SubSeq(array, 1, batchSize)>>
         \o batchArrayDropPartial(SubSeq(array, batchSize + 1, Len(array)), batchSize)

RECURSIVE batchArray(_, _)
batchArray(array, batchSize) ==
    IF Len(array) = 0 THEN <<>>
    ELSE IF Len(array) <= batchSize THEN <<array>>
    ELSE <<SubSeq(array, 1, batchSize)>>
         \o batchArray(SubSeq(array, batchSize + 1, Len(array)), batchSize)

sloBatches == batchArray(sloIds, SLO_BATCH_SIZE)

\* names of the tenant's SLOs
SloName(id) == CASE id = "a" -> "Zebra"
                 [] id = "b" -> "Apple"
                 [] OTHER    -> "Mango"

\* array.find(s => s.id === id): first match, Undefined when there is none
RECURSIVE Find(_, _)
Find(arr, id) ==
    IF Len(arr) = 0 THEN Undefined
    ELSE IF Head(arr).id = id THEN Head(arr)
    ELSE Find(Tail(arr), id)

Found(x) == x.t = "slo"

\* a || b
OrElse(x, y) == IF Found(x) THEN x ELSE y

\* variant: slo90 && { ... }, the slot of a window without data is undefined
WindowOfOrUndefined(slo) == IF Found(slo) THEN Obj(slo.evaluatedPercentage) ELSE Undefined

WindowOf(slo) == IF Found(slo) THEN Obj(slo.evaluatedPercentage) ELSE Null

\* variant: a missing target defaults to 100%
TargetOfDefaultHundred(baseSlo) ==
    IF Found(baseSlo) /\ Truthy(baseSlo.target) THEN baseSlo.target
    ELSE Num(Pct(100))

\* baseSlo ? (baseSlo.target || 0) : 0
TargetOf(baseSlo) ==
    IF Found(baseSlo)
    THEN (IF Truthy(baseSlo.target) THEN baseSlo.target ELSE Num(0))
    ELSE Num(0)

\* a filter expression, by the clauses the parser looks for: the quoted names
\* of its first entityname.in(...), the name of its first
\* entityname.equals("...") and of its first entityname.contains("...")
FilterExpr(inNames, equalsName, containsName) ==
    [t |-> "filter", inNames |-> inNames, equalsName |-> equalsName,
     containsName |-> containsName]

\* the names are pushed in this order; a name in two clauses is pushed twice
parseUserActionsFromFilter(filter) ==
    IF filter = Undefined THEN <<>>
    ELSE filter.inNames \o filter.equalsName \o filter.containsName

isSyntheticSlo(sloId) == sloId \in syntheticSloConfig

BuildSloRecord(res, id) ==
    LET slo90 == Find(res["day90"], id)
        slo30 == Find(res["day30"], id)
        slo7 == Find(res["day7"], id)
        sloCurrent == Find(res["current"], id)
        baseSlo == OrElse(sloCurrent, OrElse(slo7, OrElse(slo30, slo90)))
    IN  [id |-> id,
         name |-> IF Found(baseSlo) THEN baseSlo.name ELSE "Unknown SLO",
         target |-> TargetOf(baseSlo),
         day90 |-> WindowOf(slo90),
         day30 |-> WindowOf(slo30),
         day7 |-> WindowOf(slo7),
         current |-> WindowOf(sloCurrent),
         userAction |-> IF Found(baseSlo)
                        THEN parseUserActionsFromFilter(baseSlo.metricExpression)
                        ELSE <<>>,
         isSynthetic |-> isSyntheticSlo(id)]

\* variant: only the ids some window returned get a record
sloReportFoundOnly(res) ==
    SelectSeq([i \in 1..Len(sloIds) |-> BuildSloRecord(res, sloIds[i])],
              LAMBDA r : r.name # "Unknown SLO")

sloReport(res) == [i \in 1..Len(sloIds) |-> BuildSloRecord(res, sloIds[i])]

\* variant: the v1.0 behaviour, breach decided on the current (1-day) value
BreachCurrentStatus(slo) == IF Truthy(slo.current) THEN slo.current.status ELSE Null

\* slo.day7 ? slo.day7.status : null
BreachDay7Status(slo) == IF Truthy(slo.day7) THEN slo.day7.status ELSE Null

IsBreach(slo) ==
    LET day7Status == BreachDay7Status(slo)
    IN  NotNullish(day7Status) /\ JsGe(day7Status, Num(0))
        /\ JsLt(day7Status, slo.target)

hasBreachOf(report) == \E i \in 1..Len(report) : IsBreach(report[i])

-----------------------------------------------------------------------------
(* build_markdown_email: helpers *)

\* obj && obj[prop] !== undefined ? obj[prop] : null   (prop is "status")
safeGet(obj, prop) ==
    IF Truthy(obj) /\ obj.status # Undefined THEN obj.status ELSE Null

\* variant: a value of exactly 0 is treated as no data
isValidStatusPositive(val) == NotNullish(val) /\ val # Undefined /\ JsLt(Num(0), val)

\* val != null && val !== undefined && val >= 0
isValidStatus(val) == NotNullish(val) /\ val # Undefined /\ JsGe(val, Num(0))

\* val >= target * 0.95
AtLeastNearMiss(val, target) ==
    Comparable(val) /\ Comparable(target)
    /\ ToNumber(val) * 100 >= ToNumber(target) * 95

\* variant: the 95% test comes before the test against the target
getStatusEmojiNearMissFirst(val, target) ==
    IF ~isValidStatus(val) THEN "Unknown"
    ELSE IF AtLeastNearMiss(val, target) THEN "NearMiss"
    ELSE IF JsGe(val, target) THEN "Met"
    ELSE "Missed"

\* the four emoji, named by what the legend calls them
getStatusEmoji(val, target) ==
    IF ~isValidStatus(val) THEN "Unknown"
    ELSE IF JsGe(val, target) THEN "Met"
    ELSE IF AtLeastNearMiss(val, target) THEN "NearMiss"
    ELSE "Missed"

\* records built by fetch_slo_data carry no `daily` field
getCurrent(slo) == IF Truthy(slo.current) THEN slo.current ELSE Obj(Null)

\* variant: 0.01 instead of 0.005
STABLE_THRESHOLD_DOUBLED == 2 * 2

STABLE_THRESHOLD == 2

Abs(n) == IF n < 0 THEN 0 - n ELSE n

RECURSIVE Filter(_, _)
\* values.filter(v => isValidStatus(v)), as the numbers it keeps
Filter(values, i) ==
    IF i > Len(values) THEN <<>>
    ELSE IF isValidStatus(values[i])
         THEN <<values[i].v>> \o Filter(values, i + 1)
         ELSE Filter(values, i + 1)

\* variant: a difference of exactly the threshold counts as movement
RECURSIVE CountTransitionsStrict(_, _, _)
CountTransitionsStrict(valid, i, acc) ==
    IF i > Len(valid) - 1 THEN acc
    ELSE LET diff == valid[i + 1] - valid[i]
         IN  IF Abs(diff) < 2
             THEN CountTransitionsStrict(valid, i + 1, [acc EXCEPT !.flats = @ + 1])
             ELSE IF diff > 0
             THEN CountTransitionsStrict(valid, i + 1, [acc EXCEPT !.ups = @ + 1])
             ELSE CountTransitionsStrict(valid, i + 1, [acc EXCEPT !.downs = @ + 1])

\* the loop of getTrend: counts [ups, downs, flats] over valid[i..]
RECURSIVE CountTransitions(_, _, _)
CountTransitions(valid, i, acc) ==
    IF i > Len(valid) - 1 THEN acc
    ELSE LET diff == valid[i + 1] - valid[i]
         IN  IF Abs(diff) <= STABLE_THRESHOLD
             THEN CountTransitions(valid, i + 1, [acc EXCEPT !.flats = @ + 1])
             ELSE IF diff > 0
             THEN CountTransitions(valid, i + 1, [acc EXCEPT !.ups = @ + 1])
             ELSE CountTransitions(valid, i + 1, [acc EXCEPT !.downs = @ + 1])

TrendValues(slo) ==
    LET current == getCurrent(slo)
    IN  <<safeGet(slo.day90, "status"), safeGet(slo.day30, "status"),
          safeGet(slo.day7, "status"), safeGet(current, "status")>>

\* variant: any upward transition reads as Improving
TrendOfCountsAnyUp(c, transitions) ==
    IF c.flats = transitions THEN "Stable"
    ELSE IF c.ups > 0 THEN "Improving"
    ELSE IF c.downs > 0 THEN "Degrading"
    ELSE "Fluctuating"

TrendOfCounts(c, transitions) ==
    IF c.flats = transitions THEN "Stable"
    ELSE IF c.downs = 0 /\ c.ups > 0 THEN "Improving"
    ELSE IF c.ups = 0 /\ c.downs > 0 THEN "Degrading"
    ELSE "Fluctuating"

\* variant: trend as a comparison of the first and the last valid value
getTrendFirstLast(slo) ==
    LET valid == Filter(TrendValues(slo), 1)
    IN  IF Len(valid) < 2 THEN "Insufficient"
        ELSE IF Abs(valid[Len(valid)] - valid[1]) <= 2 THEN "Stable"
        ELSE IF valid[Len(valid)] - valid[1] > 0 THEN "Improving"
        ELSE "Degrading"

getTrend(slo) ==
    LET valid == Filter(TrendValues(slo), 1)
    IN  IF Len(valid) < 2 THEN "Insufficient"
        ELSE TrendOfCounts(
                 CountTransitions(valid, 1, [ups |-> 0, downs |-> 0, flats |-> 0]),
                 Len(valid) - 1)

\* collation rank of the names in use: a.name.localeCompare(b.name) has the
\* sign of NameRank(a.name) - NameRank(b.name)
NameRank(name) == CASE name = "Apple" -> 1
                    [] name = "Mango" -> 2
                    [] name = "Unknown SLO" -> 3
                    [] OTHER -> 4

localeCompare(x, y) == NameRank(x) - NameRank(y)

Includes(arr, x) == \E i \in 1..Len(arr) : arr[i] = x

\* arr.indexOf(x) for an x that arr includes (0-based)
indexOf(arr, x) == (CHOOSE i \in 1..Len(arr) :
                        arr[i] = x /\ \A j \in 1..(i - 1) : arr[j] # x) - 1

\* variant: the priority list is ignored, every list is ordered by name
CompareNameOnly(x, y) == localeCompare(x.name, y.name)

\* the comparator handed to Array.prototype.sort
Compare(x, y) ==
    IF Len(prioritySloIds) = 0 THEN localeCompare(x.name, y.name)
    ELSE LET aIsPriority == Includes(prioritySloIds, x.id)
             bIsPriority == Includes(prioritySloIds, y.id)
         IN  IF aIsPriority /\ ~bIsPriority THEN 0 - 1
             ELSE IF ~aIsPriority /\ bIsPriority THEN 1
             ELSE IF aIsPriority /\ bIsPriority
             THEN indexOf(prioritySloIds, x.id) - indexOf(prioritySloIds, y.id)
             ELSE localeCompare(x.name, y.name)

\* variant: an unstable sort, x goes before the elements that compare equal to it
RECURSIVE InsertBeforeTies(_, _)
InsertBeforeTies(sorted, x) ==
    IF Len(sorted) = 0 THEN <<x>>
    ELSE IF Compare(Head(sorted), x) < 0
         THEN <<Head(sorted)>> \o InsertBeforeTies(Tail(sorted), x)
         ELSE <<x>> \o sorted

\* Array.prototype.sort is stable: x goes after every element not greater than it
RECURSIVE Insert(_, _)
Insert(sorted, x) ==
    IF Len(sorted) = 0 THEN <<x>>
    ELSE IF Compare(Head(sorted), x) <= 0
         THEN <<Head(sorted)>> \o Insert(Tail(sorted), x)
         ELSE <<x>> \o sorted

RECURSIVE SortFrom(_, _, _)
SortFrom(slos, i, sorted) ==
    IF i > Len(slos) THEN sorted
    ELSE SortFrom(slos, i + 1, Insert(sorted, slos[i]))

\* variant: the priority SLOs of the whole report are pinned to the top of
\* every category
sortWithPriorityPinned(slos) ==
    SortFrom(SelectSeq(output.slos, LAMBDA r : Includes(prioritySloIds, r.id)
                                               /\ \A k \in 1..Len(slos) : slos[k] # r)
             \o slos, 1, <<>>)

sortWithPriority(slos) == SortFrom(slos, 1, <<>>)

\* variant: the v1.0 behaviour, pass/fail decided on the current (1-day) value
CurrentStatus(slo) == safeGet(getCurrent(slo), "status")

\* variant: without a 7-day record the current value is used
Day7StatusOrCurrent(slo) ==
    IF Truthy(slo.day7) THEN safeGet(slo.day7, "status")
    ELSE safeGet(getCurrent(slo), "status")

\* safeGet(slo.day7, "status")
Day7Status(slo) == safeGet(slo.day7, "status")

\* variant: the boundary value == target is Failing
IsFailingInclusive(slo) ==
    LET status == safeGet(slo.day7, "status")
    IN  isValidStatus(status) /\ JsGe(slo.target, status)

IsFailing(slo) ==
    LET status == Day7Status(slo)
    IN  isValidStatus(status) /\ JsLt(status, slo.target)

\* variant: the boundary value == target is not Passing
IsPassingStrict(slo) ==
    LET status == safeGet(slo.day7, "status")
    IN  isValidStatus(status) /\ JsLt(slo.target, status)

IsPassing(slo) ==
    LET status == Day7Status(slo)
    IN  isValidStatus(status) /\ JsGe(status, slo.target)

IsNoData(slo) ==
    LET status == Day7Status(slo)
    IN  ~isValidStatus(status)

\* slos.filter(pred) for the three category predicates
RECURSIVE FilterSlos(_, _, _)
FilterSlos(slos, i, kind) ==
    IF i > Len(slos) THEN <<>>
    ELSE LET keep == CASE kind = "failing" -> IsFailing(slos[i])
                       [] kind = "passing" -> IsPassing(slos[i])
                       [] OTHER -> IsNoData(slos[i])
         IN  IF keep THEN <<slos[i]>> \o FilterSlos(slos, i + 1, kind)
             ELSE FilterSlos(slos, i + 1, kind)

-----------------------------------------------------------------------------
(* Bounds and the data the tenant can serve *)

\* number of steps of 0.0025 above the lowest percentage of the fine grid
MaxOffset == 4

TargetValue == Pct(95)
Negative == Num(0 - Pct(1))

\* percentages around the target, 0.0025 apart: target - 0.005 .. target + 0.005
FineValues == {Num(TargetValue - 2 + k) : k \in 0..MaxOffset}

\* the two percentages on either side of 95% of the target
NearMissValues == {Num((TargetValue * 95) \div 100 - 1), Num((TargetValue * 95) \div 100)}

RecordValues == {Undefined, Negative, Num(0)} \cup NearMissValues \cup FineValues
PairValues == {Num(TargetValue - 1), Num(TargetValue)}

\* user actions of the application, and how many of them the SLO filter names
ActionNames == <<"u1", "u2", "u3", "u4", "u5">>
MaxActions == 4

\* needsAttention thresholds: combined errors, average duration in ms
ATTENTION_ERRORS == 10
ATTENTION_DURATION == 3000

\* a row of the USQL result: name, AVG(duration), SUM of the three error counts
Row(avgDuration, customErrors, jsErrors, requestErrors) ==
    [t |-> "row", avgDuration |-> avgDuration, customErrors |-> customErrors,
     jsErrors |-> jsErrors, requestErrors |-> requestErrors]

\* just below both thresholds; at the duration threshold without errors; at
\* the error threshold by the sum of the three counts; above both
ActionRowValues ==
    {Row(Num(ATTENTION_DURATION - 1), Num(3), Num(3), Num(ATTENTION_ERRORS - 7)),
     Row(Num(ATTENTION_DURATION), Null, Null, Null),
     Row(Null, Num(4), Num(3), Num(ATTENTION_ERRORS - 7)),
     Row(Num(ATTENTION_DURATION), Num(ATTENTION_ERRORS), Num(0), Num(1))}

Absent == [t |-> "absent"]

\* the SLO API record of `id` evaluated to percentage `pct`
ApiSlo(id, pct) ==
    [t |-> "slo", id |-> id, name |-> SloName(id), target |-> sloTarget[id],
     evaluatedPercentage |-> pct, metricExpression |-> metricExpression[id]]

RECURSIVE BatchResults(_, _, _)
\* data.slo: the records of the batch's ids the API knows, in batch order
BatchResults(batch, i, resp) ==
    IF i > Len(batch) THEN <<>>
    ELSE IF resp[batch[i]] = Absent THEN BatchResults(batch, i + 1, resp)
    ELSE <<ApiSlo(batch[i], resp[batch[i]])>> \o BatchResults(batch, i + 1, resp)

SeqToSet(seq) == {seq[i] : i \in 1..Len(seq)}

-----------------------------------------------------------------------------
(* Initial states *)

InitRun ==
    /\ fetchState = "pending"
    /\ periodIdx = 1
    /\ batchIndex = 0
    /\ results = [p \in {} |-> <<>>]
    /\ sloRequests = <<>>
    /\ usqlRequests = <<>>
    /\ usqlBatchIndex = 0
    /\ userActionMetrics = [n \in {} |-> Null]
    /\ entityIdx = 0
    /\ entityLookups = <<>>
    /\ userActionEntities = [n \in {} |-> Null]
    /\ output = Null
    /\ buildState = "pending"
    /\ failingSLOs = <<>>
    /\ passingSLOs = <<>>
    /\ noDataSLOs = <<>>
    /\ breachStatus = "none"
    /\ trend = <<>>
    /\ emoji = <<>>
    /\ userActionTables = <<>>
    /\ sendState = "pending"
    /\ adoState = "pending"
    /\ adoResult = Null
    /\ workItems = 0

\* the first configured SLO is built on one user action, for which the
\* application has recorded no sessions; no SLO is synthetic
InitQuietTenant ==
    /\ metricExpression =
           [id \in SeqToSet(sloIds) |->
               IF id = sloIds[1] THEN FilterExpr(<<>>, <<ActionNames[1]>>, <<>>)
               ELSE Undefined]
    /\ syntheticSloConfig = {}
    /\ actionRows = {}
    /\ keyUserActions = {}

\* two SLOs, coarse percentages
Init ==
    /\ sloIds = <<"a", "b">>
    /\ prioritySloIds \in {<<>>, <<"b", "a">>}
    /\ apiValues = PairValues \cup {Absent}
    /\ InitQuietTenant
    /\ sloTarget \in [SeqToSet(sloIds) -> {Undefined, Num(TargetValue)}]
    /\ InitRun

\* one SLO, percentages on the fine grid
InitRecord ==
    /\ sloIds = <<"a">>
    /\ prioritySloIds = <<>>
    /\ apiValues = RecordValues \cup {Absent}
    /\ InitQuietTenant
    /\ sloTarget \in [SeqToSet(sloIds) -> {Undefined, Num(TargetValue)}]
    /\ InitRun


\* three SLOs in two configured orders, one percentage just below the target,
\* SLO "b" with or without an upstream target; ids "c" and "d" carry the same
\* name
InitSort ==
    /\ sloIds \in {<<"a", "b", "c">>, <<"d", "c", "b">>}
    /\ prioritySloIds \in {<<>>, <<"b", "a">>}
    /\ apiValues = {Num(TargetValue - 1), Absent}
    /\ InitQuietTenant
    /\ sloTarget \in {f \in [SeqToSet(sloIds) -> {Undefined, Num(TargetValue)}] :
                         \A id \in DOMAIN f : f[id] = Undefined => id = "b"}
    /\ InitRun

\* a non-synthetic SLO "a" on up to MaxActions user actions and a synthetic
\* SLO "s" whose filter names the first of them; the SLO API answers every
\* request with both SLOs or fails, the USQL API reports any of the rows
InitActions ==
    /\ sloIds = <<"a", "s">>
    /\ prioritySloIds = <<>>
    /\ apiValues = {Num(TargetValue - 1)}
    /\ sloTarget = [id \in SeqToSet(sloIds) |-> Num(TargetValue)]
    /\ metricExpression =
           [id \in SeqToSet(sloIds) |->
               IF id = "a" THEN FilterExpr(SubSeq(ActionNames, 1, MaxActions), <<>>, <<>>)
               ELSE FilterExpr(<<>>, <<ActionNames[1]>>, <<>>)]
    /\ syntheticSloConfig = {"s"}
    /\ actionRows = ActionRowValues
    /\ keyUserActions = {}
    /\ InitRun

\* SLO "a" names one action in two clauses, the synthetic SLO "s" an action
\* of its own, SLO "b" an action of "a" and a new one; the SLO API may leave
\* out any SLO; two actions are Key User Actions
InitLookup ==
    /\ sloIds = <<"a", "s", "b">>
    /\ prioritySloIds = <<>>
    /\ apiValues = {Num(TargetValue - 1), Absent}
    /\ sloTarget = [id \in SeqToSet(sloIds) |-> Num(TargetValue)]
    /\ metricExpression =
           [id \in SeqToSet(sloIds) |->
               CASE id = "a" -> FilterExpr(<<ActionNames[1], ActionNames[2]>>,
                                           <<ActionNames[1]>>, <<>>)
                 [] id = "s" -> FilterExpr(<<>>, <<ActionNames[3]>>, <<>>)
                 [] OTHER    -> FilterExpr(<<ActionNames[2], ActionNames[4]>>,
                                           <<>>, <<ActionNames[1]>>)]
    /\ syntheticSloConfig = {"s"}
    /\ actionRows = {}
    /\ keyUserActions = {ActionNames[1], ActionNames[4]}
    /\ InitRun

\* numbers of configured SLOs around the batch size: none, one short of a
\* batch, one full batch, one more than a batch
SloCounts == {0, SLO_BATCH_SIZE - 1, SLO_BATCH_SIZE, SLO_BATCH_SIZE + 1}

\* the ids "1", "2", ... of that many SLOs, all with a target; the SLO API
\* answers every request with all ids of the batch or fails
InitBatch ==
    /\ sloIds \in {[i \in 1..n |-> ToString(i)] : n \in SloCounts}
    /\ prioritySloIds = <<>>
    /\ apiValues = {Num(TargetValue - 1)}
    /\ sloTarget = [id \in SeqToSet(sloIds) |-> Num(TargetValue)]
    /\ InitQuietTenant
    /\ InitRun

-----------------------------------------------------------------------------
(* Workflow engine: task conditions *)

BuildMayStart == fetchState = "success"
SendMayStart == buildState = "success"
\* variant: the custom condition of create_ado_ticket left blank
AdoMayStartUnconditional == fetchState = "success"
AdoMayStart == fetchState = "success" /\ output.hasBreach = TRUE

-----------------------------------------------------------------------------
(* fetch_slo_data *)

configVars == <<sloIds, prioritySloIds, apiValues, sloTarget, metricExpression,
                syntheticSloConfig, actionRows, keyUserActions>>
usqlVars == <<usqlRequests, usqlBatchIndex, userActionMetrics>>
entityVars == <<entityIdx, entityLookups, userActionEntities>>
buildVars == <<buildState, failingSLOs, passingSLOs, noDataSLOs, breachStatus,
               trend, emoji, userActionTables>>
adoVars == <<adoState, adoResult, workItems>>

StartFetch ==
    /\ fetchState = "pending"
    /\ fetchState' = "running"
    /\ UNCHANGED <<periodIdx, batchIndex, results, output, sendState>>
    /\ UNCHANGED <<configVars, sloRequests, entityVars, usqlVars, buildVars, adoVars>>

\* results[period.name] = [] on entering a period, then the period's list
PeriodResults(name) == IF name \in DOMAIN results THEN results[name] ELSE <<>>

\* variant: the batch loop is left after its first request
NextPeriodIdxAfterFirstBatch == periodIdx + 1

\* loop position after request (periodIdx, batchIndex)
NextPeriodIdx == IF batchIndex + 1 < Len(sloBatches) THEN periodIdx ELSE periodIdx + 1
NextBatchIndex == IF batchIndex + 1 < Len(sloBatches) THEN batchIndex + 1 ELSE 0

\* one getSlo request of the loop: it returns data.slo or throws
FetchBatch ==
    /\ fetchState = "running"
    /\ periodIdx <= Len(timePeriods)
    /\ batchIndex < Len(sloBatches)
    /\ LET name == timePeriods[periodIdx]
           batch == sloBatches[batchIndex + 1]
       IN  \/ \E resp \in [SeqToSet(batch) -> apiValues] :
                 results' = (name :> (PeriodResults(name)
                                      \o BatchResults(batch, 1, resp))) @@ results
           \/ results' = (name :> PeriodResults(name)) @@ results
    /\ sloRequests' = Append(sloRequests,
                             [period |-> timePeriods[periodIdx],
                              batchIndex |-> batchIndex,
                              ids |-> sloBatches[batchIndex + 1],
                              pageSize |-> SLO_BATCH_SIZE])
    /\ periodIdx' = NextPeriodIdx
    /\ batchIndex' = NextBatchIndex
    /\ UNCHANGED <<fetchState, output, sendState>>
    /\ UNCHANGED <<configVars, entityVars, usqlVars, buildVars, adoVars>>

\* the SLO loop has issued its last request
SloLoopDone == periodIdx > Len(timePeriods) \/ Len(sloBatches) = 0

\* sloReport as built from the results of the loop
CurrentReport == sloReport([n \in SeqToSet(timePeriods) |-> PeriodResults(n)])

\* variant: every parsed name is pushed, without the includes() test
PushAll(all, userActions, k) == all \o userActions

\* for (const ua of slo.userAction) if (!all.includes(ua)) all.push(ua)
RECURSIVE PushNew(_, _, _)
PushNew(all, userActions, k) ==
    IF k > Len(userActions) THEN all
    ELSE PushNew(IF Includes(all, userActions[k]) THEN all
                 ELSE Append(all, userActions[k]),
                 userActions, k + 1)

RECURSIVE CollectUserActions(_, _, _)
CollectUserActions(report, i, all) ==
    IF i > Len(report) THEN all
    ELSE CollectUserActions(report, i + 1,
             IF ~report[i].isSynthetic /\ Len(report[i].userAction) > 0
             THEN PushNew(all, report[i].userAction, 1)
             ELSE all)

allUserActions(report) == CollectUserActions(report, 1, <<>>)

uaBatches == batchArray(allUserActions(CurrentReport), USQL_BATCH_SIZE)

\* x || 0 for a number or null
OrZero(x) == IF Truthy(x) THEN x.v ELSE 0

\* userActionMetrics[actionName] = { avgDuration: row[1] || 0, ... }
MetricsOfRow(row) ==
    [t |-> "metrics", avgDuration |-> OrZero(row.avgDuration),
     customErrors |-> OrZero(row.customErrors), jsErrors |-> OrZero(row.jsErrors),
     requestErrors |-> OrZero(row.requestErrors)]

\* for (const row of response.values): one row per name the result holds
RECURSIVE StoreRows(_, _, _, _)
StoreRows(metrics, batch, i, resp) ==
    IF i > Len(batch) THEN metrics
    ELSE StoreRows(IF resp[batch[i]] = Absent THEN metrics
                   ELSE (batch[i] :> MetricsOfRow(resp[batch[i]])) @@ metrics,
                   batch, i + 1, resp)

\* one getUsqlResultAsTable request: it returns rows for some names of the
\* batch, or throws and the batch is skipped
FetchUsql ==
    /\ fetchState = "running"
    /\ SloLoopDone
    /\ usqlBatchIndex < Len(uaBatches)
    /\ LET batch == uaBatches[usqlBatchIndex + 1]
       IN  \/ \E resp \in [SeqToSet(batch) -> actionRows \cup {Absent}] :
                 userActionMetrics' = StoreRows(userActionMetrics, batch, 1, resp)
           \/ userActionMetrics' = userActionMetrics
    /\ usqlRequests' = Append(usqlRequests, uaBatches[usqlBatchIndex + 1])
    /\ usqlBatchIndex' = usqlBatchIndex + 1
    /\ UNCHANGED <<fetchState, periodIdx, batchIndex, results, output, sendState>>
    /\ UNCHANGED <<configVars, sloRequests, entityVars, buildVars, adoVars>>

\* the USQL loop has issued its last request
UsqlLoopDone == usqlBatchIndex >= Len(uaBatches)

\* userActionEntities[ua] = { entityId, applicationId }; the tenant reports no
\* isActionOf relationship, so applicationId stays null
EntityOf(ua) == [t |-> "entity", entityId |-> ua, applicationId |-> Null]

\* one getEntities request of the entity loop: it returns the entity of a Key
\* User Action, returns no entity, or throws
FetchEntity ==
    /\ fetchState = "running"
    /\ SloLoopDone
    /\ UsqlLoopDone
    /\ entityIdx < Len(allUserActions(CurrentReport))
    /\ LET ua == allUserActions(CurrentReport)[entityIdx + 1]
       IN  /\ entityLookups' = Append(entityLookups, ua)
           /\ \/ userActionEntities' =
                     IF ua \in keyUserActions
                     THEN (ua :> EntityOf(ua)) @@ userActionEntities
                     ELSE userActionEntities
              \/ userActionEntities' = userActionEntities
    /\ entityIdx' = entityIdx + 1
    /\ UNCHANGED <<fetchState, periodIdx, batchIndex, results, output, sendState>>
    /\ UNCHANGED <<configVars, sloRequests, usqlVars, buildVars, adoVars>>
\* after the loop: build sloReport, determine hasBreach, return the output
FetchReturn ==
    /\ fetchState = "running"
    /\ SloLoopDone
    /\ UsqlLoopDone
    /\ entityIdx >= Len(allUserActions(CurrentReport))
    /\ LET report == CurrentReport
       IN  output' = [t |-> "object", slos |-> report,
                      userActionMetrics |-> userActionMetrics,
                      userActionEntities |-> userActionEntities,
                      hasBreach |-> hasBreachOf(report)]
    /\ fetchState' = "success"
    /\ UNCHANGED <<periodIdx, batchIndex, results, sendState>>
    /\ UNCHANGED <<configVars, sloRequests, entityVars, usqlVars, buildVars, adoVars>>

\* the engine ends the task without a result (e.g. task timeout)
FetchError ==
    /\ fetchState = "running"
    /\ fetchState' = "error"
    /\ UNCHANGED <<periodIdx, batchIndex, results, output, sendState>>
    /\ UNCHANGED <<configVars, sloRequests, entityVars, usqlVars, buildVars, adoVars>>

-----------------------------------------------------------------------------
(* build_markdown_email *)

\* userActionMetrics[ua]: Undefined for a name without metrics
MetricsOf(metricsByName, ua) ==
    IF ua \in DOMAIN metricsByName THEN metricsByName[ua] ELSE Undefined

TotalErrors(metrics) ==
    metrics.customErrors + metrics.jsErrors + metrics.requestErrors

\* variant: any error at all flags the action
needsAttentionAnyError(metrics) ==
    IF metrics = Undefined THEN FALSE
    ELSE TotalErrors(metrics) >= 1 \/ metrics.avgDuration >= ATTENTION_DURATION

needsAttention(metrics) ==
    IF metrics = Undefined THEN FALSE
    ELSE TotalErrors(metrics) >= ATTENTION_ERRORS
         \/ metrics.avgDuration >= ATTENTION_DURATION

\* (totalErrors * 10) + avgDuration / 1000, counted in thousandths
getAttentionScore(metrics) ==
    IF metrics = Undefined THEN 0
    ELSE TotalErrors(metrics) * 10 * 1000 + metrics.avgDuration

\* metrics && needsAttention(metrics)
ActionNeedsAttention(metricsByName, ua) ==
    LET metrics == MetricsOf(metricsByName, ua)
    IN  metrics # Undefined /\ needsAttention(metrics)

\* the filter callback of slosWithActionableUserActions
IsActionable(slo, metricsByName) ==
    /\ ~slo.isSynthetic
    /\ Len(slo.userAction) > 0
    /\ \E k \in 1..Len(slo.userAction) :
           ActionNeedsAttention(metricsByName, slo.userAction[k])

actionsNeedingAttention(slo, metricsByName) ==
    SelectSeq(slo.userAction, LAMBDA ua : ActionNeedsAttention(metricsByName, ua))

\* sort((a, b) => b.score - a.score), stable: x goes after every item whose
\* score is not lower
RECURSIVE InsertByScore(_, _, _)
InsertByScore(sorted, x, metricsByName) ==
    IF Len(sorted) = 0 THEN <<x>>
    ELSE IF getAttentionScore(MetricsOf(metricsByName, Head(sorted)))
                >= getAttentionScore(MetricsOf(metricsByName, x))
         THEN <<Head(sorted)>> \o InsertByScore(Tail(sorted), x, metricsByName)
         ELSE <<x>> \o sorted

RECURSIVE SortByScore(_, _, _, _)
SortByScore(items, i, sorted, metricsByName) ==
    IF i > Len(items) THEN sorted
    ELSE SortByScore(items, i + 1, InsertByScore(sorted, items[i], metricsByName),
                     metricsByName)

TOP_ACTIONS == 3

\* arr.slice(0, n)
SliceTop(arr, n) == SubSeq(arr, 1, IF Len(arr) < n THEN Len(arr) ELSE n)

\* variant: the first three actions needing attention are taken, then ranked
sortedActionsSliceFirst(slo, metricsByName) ==
    SortByScore(SliceTop(actionsNeedingAttention(slo, metricsByName), TOP_ACTIONS),
                1, <<>>, metricsByName)

\* the rows of an SLO's user action table, by action name
sortedActions(slo, metricsByName) ==
    SliceTop(SortByScore(actionsNeedingAttention(slo, metricsByName), 1, <<>>,
                         metricsByName),
             TOP_ACTIONS)
\* variant: the sort is applied to sloData.slos itself before the filters
SlosAfterBuildSortedInPlace(slos) == sortWithPriority(slos)

\* sloData.slos when the task ends: every filter() returns a new array and the
\* in-place sort acts on that array, nothing writes to sloData.slos or to a
\* record
SlosAfterBuild(slos) == slos

Build ==
    /\ BuildMayStart
    /\ buildState = "pending"
    /\ LET slos == output.slos
       IN  /\ failingSLOs' = sortWithPriority(FilterSlos(slos, 1, "failing"))
           /\ passingSLOs' = sortWithPriority(FilterSlos(slos, 1, "passing"))
           /\ noDataSLOs' = sortWithPriority(FilterSlos(slos, 1, "nodata"))
           /\ trend' = [i \in 1..Len(slos) |-> getTrend(slos[i])]
           /\ emoji' = [i \in 1..Len(slos) |->
                            getStatusEmoji(Day7Status(slos[i]), slos[i].target)]
    /\ breachStatus' = IF Len(failingSLOs') > 0 THEN "BREACH" ELSE "OK"
    /\ userActionTables' =
           [i \in 1..Len(output.slos) |->
               IF IsActionable(output.slos[i], output.userActionMetrics)
               THEN sortedActions(output.slos[i], output.userActionMetrics)
               ELSE <<>>]
    /\ output' = [output EXCEPT !.slos = SlosAfterBuild(output.slos)]
    /\ buildState' = "success"
    /\ UNCHANGED <<fetchState, periodIdx, batchIndex, results, sendState>>
    /\ UNCHANGED <<configVars, sloRequests, entityVars, usqlVars, adoVars>>

\* ex.result('fetch_slo_data') rejects
BuildError ==
    /\ BuildMayStart
    /\ buildState = "pending"
    /\ buildState' = "error"
    /\ UNCHANGED <<fetchState, periodIdx, batchIndex, results, output, sendState,
                   failingSLOs, passingSLOs, noDataSLOs, breachStatus, trend,
                   emoji, userActionTables>>
    /\ UNCHANGED <<configVars, sloRequests, entityVars, usqlVars, adoVars>>

-----------------------------------------------------------------------------
(* send_email *)

SendEmail ==
    /\ SendMayStart
    /\ sendState = "pending"
    /\ sendState' = "success"
    /\ UNCHANGED <<fetchState, periodIdx, batchIndex, results, output>>
    /\ UNCHANGED <<configVars, sloRequests, entityVars, usqlVars, buildVars, adoVars>>

-----------------------------------------------------------------------------
(* create_ado_ticket *)

\* slo.current?.status
AdoCurrentStatus(slo) == IF NotNullish(slo.current) THEN slo.current.status ELSE Undefined

AdoIsFailing(slo) ==
    LET status == AdoCurrentStatus(slo)
    IN  NotNullish(status) /\ JsGe(status, Num(0)) /\ JsLt(status, slo.target)

AdoFailingCount(slos) == Cardinality({i \in 1..Len(slos) : AdoIsFailing(slos[i])})

CreateAdoTicket ==
    /\ AdoMayStart
    /\ adoState = "pending"
    /\ \E patOk \in BOOLEAN, postOk \in BOOLEAN :
          LET created == output.hasBreach /\ patOk /\ postOk
          IN  /\ adoResult' = IF ~output.hasBreach THEN [status |-> "skipped"]
                              ELSE IF ~patOk THEN [status |-> "error"]
                              ELSE IF ~postOk THEN [status |-> "error"]
                              ELSE [status |-> "success",
                                    failingSloCount |-> AdoFailingCount(output.slos)]
              /\ workItems' = IF created THEN workItems + 1 ELSE workItems
    /\ adoState' = "success"
    /\ UNCHANGED <<fetchState, periodIdx, batchIndex, results, output, sendState>>
    /\ UNCHANGED <<configVars, sloRequests, entityVars, usqlVars, buildVars>>

-----------------------------------------------------------------------------

Next ==
    \/ StartFetch
    \/ FetchBatch
    \/ FetchUsql
    \/ FetchEntity
    \/ FetchReturn
    \/ FetchError
    \/ Build
    \/ BuildError
    \/ SendEmail
    \/ CreateAdoTicket

Spec == Init /\ [][Next]_vars

SpecRecord == InitRecord /\ [][Next]_vars

SpecSort == InitSort /\ [][Next]_vars

SpecActions == InitActions /\ [][Next]_vars

SpecBatch == InitBatch /\ [][Next]_vars

SpecLookup == InitLookup /\ [][Next]_vars

-----------------------------------------------------------------------------
(* Vocabulary of the properties: read off the fetched records and the lists  *)
(* build_markdown_email produced, without the helpers of the scripts.        *)

Built == buildState = "success"

Slos == output.slos

\* the raw status of a window slot: Null for an empty slot
RawStatus(slot) == IF slot = Null THEN Null ELSE slot.status

IsValidRaw(x) == x.t = "number" /\ x.v >= 0

InList(list, slo) == \E k \in 1..Len(list) : list[k] = slo
Occurrences(list, slo) == Cardinality({k \in 1..Len(list) : list[k] = slo})

\* window statuses in the order 90d, 30d, 7d, current, and the valid ones
RawWindows(slo) == <<RawStatus(slo.day90), RawStatus(slo.day30),
                     RawStatus(slo.day7), RawStatus(slo.current)>>
ValidWindows(slo) == SelectSeq(RawWindows(slo), IsValidRaw)

Transitions(slo) == 1..(Len(ValidWindows(slo)) - 1)
Diff(slo, k) == ValidWindows(slo)[k + 1].v - ValidWindows(slo)[k].v
IsFlat(slo, k) == Diff(slo, k) <= 2 /\ Diff(slo, k) >= 0 - 2
IsUp(slo, k) == Diff(slo, k) > 2
IsDown(slo, k) == Diff(slo, k) < 0 - 2

-----------------------------------------------------------------------------
(* C1: every record handed to build_markdown_email lands in exactly one of   *)
(* failingSLOs, passingSLOs, noDataSLOs, so the three counts add up to the   *)
(* number of SLOs.                                                           *)
C1_ExactlyOneCategory ==
    Built =>
        /\ \A i \in 1..Len(Slos) :
              Occurrences(failingSLOs, Slos[i]) + Occurrences(passingSLOs, Slos[i])
                  + Occurrences(noDataSLOs, Slos[i]) = 1
        /\ Len(failingSLOs) + Len(passingSLOs) + Len(noDataSLOs) = Len(Slos)

\* a record whose target was missing upstream (emitted as 0) and whose 7-day
\* value is 0: valid, equal to the target, and listed as Passing only
C1_Witness ==
    /\ Built
    /\ \E i \in 1..Len(Slos) :
          /\ sloTarget[Slos[i].id] = Undefined
          /\ Slos[i].target = Num(0)
          /\ Slos[i].day7 = Obj(Num(0))
          /\ InList(passingSLOs, Slos[i])
          /\ Len(failingSLOs) + Len(noDataSLOs) = 0

(* C2: with v the 7-day value and t the target, the record is NoData when v *)
(* is null or negative, Failing when v is valid and v < t, Passing when v is *)
(* valid and v >= t (so v = t is Passing); raising a valid v with t fixed    *)
(* never turns Passing into Failing.                                         *)
Categories(slo) ==
    {c \in {"Failing", "Passing", "NoData"} :
        \/ c = "Failing" /\ InList(failingSLOs, slo)
        \/ c = "Passing" /\ InList(passingSLOs, slo)
        \/ c = "NoData" /\ InList(noDataSLOs, slo)}

C2_Categorization ==
    Built =>
        \A i \in 1..Len(Slos) :
            LET slo == Slos[i]
                v == RawStatus(slo.day7)
                t == slo.target.v
            IN  /\ ~IsValidRaw(v) => Categories(slo) = {"NoData"}
                /\ IsValidRaw(v) /\ v.v < t => Categories(slo) = {"Failing"}
                /\ IsValidRaw(v) /\ v.v >= t => Categories(slo) = {"Passing"}
                /\ Categories(slo) = {"Passing"} =>
                      \A w \in apiValues :
                          IsValidRaw(w) /\ w.v >= v.v =>
                              ~IsFailing([slo EXCEPT !.day7 = Obj(w)])

\* the boundary: a 7-day value equal to a non-zero target, listed as Passing
C2_Witness ==
    /\ Built
    /\ \E i \in 1..Len(Slos) :
          /\ Slos[i].target = Num(TargetValue)
          /\ RawStatus(Slos[i].day7) = Slos[i].target
          /\ InList(passingSLOs, Slos[i])

(* C3: two records that agree on day7.status and target are placed in the   *)
(* same category, whatever their 90-day, 30-day and current values.          *)
C3_OnlyDay7AndTarget ==
    Built =>
        \A i, j \in 1..Len(Slos) :
            (Slos[i].day7 = Slos[j].day7 /\ Slos[i].target = Slos[j].target)
                => Categories(Slos[i]) = Categories(Slos[j])

\* two failing records with the same 7-day value and target whose other
\* three windows all differ, one of them at target on the current window
C3_Witness ==
    /\ Built
    /\ \E i, j \in 1..Len(Slos) :
          /\ Slos[i].day7 = Slos[j].day7
          /\ Slos[i].day7 # Null
          /\ Slos[i].target = Slos[j].target
          /\ Slos[i].day90 # Slos[j].day90
          /\ Slos[i].day30 # Slos[j].day30
          /\ Slos[i].current # Slos[j].current
          /\ Slos[i].current = Obj(Slos[i].target)
          /\ InList(failingSLOs, Slos[i])
          /\ InList(failingSLOs, Slos[j])

C5_WorkflowOrdering ==
    /\ buildState # "pending" => fetchState = "success"
    /\ sendState # "pending" => buildState = "success"
    /\ adoState # "pending" => (fetchState = "success" /\ output.hasBreach)
    /\ workItems > 0 => (fetchState = "success" /\ output.hasBreach)

\* a run that sent the e-mail and created a work item
C5_Witness ==
    /\ sendState = "success"
    /\ adoState = "success"
    /\ workItems = 1
    /\ output.hasBreach

(* C6: over the valid window values in the order 90d, 30d, 7d, current,      *)
(* each consecutive pair is flat (|diff| <= 0.005), up (diff > 0) or down,   *)
(* and getTrend is Stable when every transition is flat, else Improving when *)
(* there is no down and at least one up, else Degrading when there is no up  *)
(* and at least one down, else Fluctuating.                                  *)
ExpectedTrend(slo) ==
    IF \A k \in Transitions(slo) : IsFlat(slo, k) THEN "Stable"
    ELSE IF (\A k \in Transitions(slo) : ~IsDown(slo, k))
            /\ (\E k \in Transitions(slo) : IsUp(slo, k)) THEN "Improving"
    ELSE IF (\A k \in Transitions(slo) : ~IsUp(slo, k))
            /\ (\E k \in Transitions(slo) : IsDown(slo, k)) THEN "Degrading"
    ELSE "Fluctuating"

C7_ValidValuesAndInsufficient ==
    Built =>
        \A i \in 1..Len(Slos) :
            LET kept == ValidWindows(Slos[i])
            IN  /\ Filter(TrendValues(Slos[i]), 1) = [k \in 1..Len(kept) |-> kept[k].v]
                /\ trend[i] = "Insufficient" <=> Len(kept) < 2

\* windows [null, null, v, null]: one valid point only
C7_Witness ==
    /\ Built
    /\ \E i \in 1..Len(Slos) :
          /\ Slos[i].day90 = Null
          /\ Slos[i].day30 = Null
          /\ Slos[i].current = Null
          /\ Slos[i].day7 # Null
          /\ IsValidRaw(Slos[i].day7.status)
          /\ trend[i] = "Insufficient"

C9_MixedIsFluctuating ==
    Built =>
        \A i \in 1..Len(Slos) :
            ((\E k \in Transitions(Slos[i]) : IsDown(Slos[i], k))
             /\ (\E k \in Transitions(Slos[i]) : IsUp(Slos[i], k)))
                => trend[i] = "Fluctuating"

\* a dip and a full recovery: first and last valid values are equal
C9_Witness ==
    /\ Built
    /\ \E i \in 1..Len(Slos) :
          LET kept == ValidWindows(Slos[i])
          IN  /\ Len(kept) >= 3
              /\ kept[1] = kept[Len(kept)]
              /\ IsDown(Slos[i], 1)
              /\ \E k \in Transitions(Slos[i]) : IsUp(Slos[i], k)
              /\ trend[i] = "Fluctuating"

(* C10 as stated: whenever the last valid window value differs from the      *)
(* first valid window value by 0.01 or more, getTrend does not return Stable.*)
C10_NetMovementNotStable ==
    Built =>
        \A i \in 1..Len(Slos) :
            LET kept == ValidWindows(Slos[i])
            IN  (Len(kept) >= 2
                 /\ (kept[Len(kept)].v - kept[1].v >= 4
                     \/ kept[1].v - kept[Len(kept)].v >= 4))
                    => trend[i] # "Stable"

(* C10 amended: whenever two consecutive valid window values differ by 0.01  *)
(* or more, getTrend does not return Stable.                                 *)
C10_StepMovementNotStable ==
    Built =>
        \A i \in 1..Len(Slos) :
            (\E k \in Transitions(Slos[i]) :
                 Diff(Slos[i], k) >= 4 \/ Diff(Slos[i], k) <= 0 - 4)
                => trend[i] # "Stable"

\* a step of exactly 0.01 between consecutive valid windows, all other steps flat
C10_Witness ==
    /\ Built
    /\ \E i \in 1..Len(Slos) :
          /\ Len(ValidWindows(Slos[i])) >= 3
          /\ \E k \in Transitions(Slos[i]) :
                /\ Diff(Slos[i], k) = 4
                /\ \A m \in Transitions(Slos[i]) \ {k} : IsFlat(Slos[i], m)
          /\ trend[i] = "Improving"


-----------------------------------------------------------------------------
(* Ordering of the category lists *)

\* the three lists the email renders, in the order they are built
SortedLists == <<failingSLOs, passingSLOs, noDataSLOs>>

IsPriority(slo) == \E k \in 1..Len(prioritySloIds) : prioritySloIds[k] = slo.id

\* position of the first occurrence of an id in the priority list
PriorityPos(slo) ==
    CHOOSE k \in 1..Len(prioritySloIds) :
        /\ prioritySloIds[k] = slo.id
        /\ \A m \in 1..(k - 1) : prioritySloIds[m] # slo.id

\* position of a record in the sequence the build task received
InputPos(slo) == CHOOSE k \in 1..Len(Slos) : Slos[k] = slo

\* the two records carry the same sort key
SameKey(x, y) ==
    \/ IsPriority(x) /\ IsPriority(y) /\ x.id = y.id
    \/ ~IsPriority(x) /\ ~IsPriority(y) /\ x.name = y.name

\* C11: in every sorted list the records whose id is in prioritySloIds come
\* before all others, in the order of their ids in prioritySloIds, and the
\* remaining records are in ascending order of name.
C11_PriorityThenName ==
    Built =>
        \A n \in 1..3 :
            LET L == SortedLists[n] IN
            \A i, j \in 1..Len(L) :
                i < j =>
                    /\ IsPriority(L[j]) => IsPriority(L[i])
                    /\ IsPriority(L[i]) /\ IsPriority(L[j])
                           => PriorityPos(L[i]) <= PriorityPos(L[j])
                    /\ ~IsPriority(L[i]) /\ ~IsPriority(L[j])
                           => NameRank(L[i].name) <= NameRank(L[j].name)

\* the README example: priority ids [b, a], a = Zebra, b = Apple, c = Mango,
\* configured as a, b, c and all three in one category, come out as b, a, c
C11_Witness ==
    /\ Built
    /\ prioritySloIds = <<"b", "a">>
    /\ [k \in 1..Len(Slos) |-> Slos[k].id] = <<"a", "b", "c">>
    /\ [k \in 1..Len(failingSLOs) |-> failingSLOs[k].id] = <<"b", "a", "c">>
    /\ [k \in 1..3 |-> failingSLOs[k].name] = <<"Apple", "Zebra", "Mango">>

\* C12: sorting an already sorted list changes nothing.
C12_Idempotent ==
    Built => \A n \in 1..3 : sortWithPriority(SortedLists[n]) = SortedLists[n]

\* a list that the sort reordered and that holds two records with one name
C12_Witness ==
    /\ Built
    /\ Len(noDataSLOs) = 3
    /\ noDataSLOs # Slos
    /\ \E i, j \in 1..3 : i # j /\ noDataSLOs[i].name = noDataSLOs[j].name

\* C13: two records with equal sort keys (both non-priority with the same
\* name, or the same priority id) keep the relative order of the input.
C13_Stable ==
    Built =>
        \A n \in 1..3 :
            LET L == SortedLists[n] IN
            \A i, j \in 1..Len(L) :
                i < j /\ SameKey(L[i], L[j]) => InputPos(L[i]) < InputPos(L[j])

\* two non-priority records named alike sit next to each other in a list,
\* behind a priority record that the input had after them
C13_Witness ==
    /\ Built
    /\ \E n \in 1..3 :
           LET L == SortedLists[n] IN
           /\ Len(L) = 3
           /\ IsPriority(L[1]) /\ InputPos(L[1]) = 3
           /\ SameKey(L[2], L[3]) /\ L[2] # L[3]

\* the category predicates, on the raw 7-day value and the target
SatisfiesCategory(slo, kind) ==
    LET v == RawStatus(slo.day7) IN
    \/ kind = "NoData" /\ ~IsValidRaw(v)
    \/ kind = "Failing" /\ IsValidRaw(v) /\ v.v < slo.target.v
    \/ kind = "Passing" /\ IsValidRaw(v) /\ v.v >= slo.target.v

\* the number of records of the input that satisfy a category predicate
RECURSIVE CountSlos(_, _, _)
CountSlos(slos, i, kind) ==
    IF i > Len(slos) THEN 0
    ELSE CountSlos(slos, i + 1, kind)
         + (IF SatisfiesCategory(slos[i], kind) THEN 1 ELSE 0)

CategoryLists ==
    [Failing |-> failingSLOs, Passing |-> passingSLOs, NoData |-> noDataSLOs]

\* C14: each sorted list is a permutation of exactly the records that satisfy
\* its category's predicate, so a priority SLO is pinned to the top of its own
\* category only.
C14_PerCategory ==
    Built =>
        \A kind \in DOMAIN CategoryLists :
            /\ Len(CategoryLists[kind]) = CountSlos(Slos, 1, kind)
            /\ \A i \in 1..Len(Slos) :
                   Occurrences(CategoryLists[kind], Slos[i])
                       = (IF SatisfiesCategory(Slos[i], kind) THEN 1 ELSE 0)

\* the two priority SLOs fall into different categories and each one heads
\* its own list, in front of no record of another category
C14_Witness ==
    /\ Built
    /\ prioritySloIds = <<"b", "a">>
    /\ Len(failingSLOs) = 2 /\ failingSLOs[1].id = "a"
    /\ Len(passingSLOs) = 1 /\ passingSLOs[1].id = "b"


-----------------------------------------------------------------------------
(* Status severity of a row *)

-----------------------------------------------------------------------------
(* Records emitted by fetch_slo_data *)

Fetched == fetchState = "success"

\* no window of the run holds a record of the SLO
NoWindowData(slo) ==
    slo.day90 = Null /\ slo.day30 = Null /\ slo.day7 = Null /\ slo.current = Null

\* the record breaches: a valid 7-day value below its target
BreachesTarget(slo) ==
    IsValidRaw(RawStatus(slo.day7)) /\ RawStatus(slo.day7).v < slo.target.v

\* C16: a record whose SLO has no target upstream, or no data in any window,
\* is emitted with target 0; if its 7-day value is valid it is listed as
\* Passing and hasBreach is true only because of some other record.
C16_MissingTargetIsZero ==
    Fetched =>
        \A i \in 1..Len(Slos) :
            (sloTarget[Slos[i].id] = Undefined \/ NoWindowData(Slos[i])) =>
                /\ Slos[i].target = Num(0)
                /\ IsValidRaw(RawStatus(Slos[i].day7)) =>
                       /\ Built => Categories(Slos[i]) = {"Passing"}
                       /\ output.hasBreach =>
                              \E j \in 1..Len(Slos) : j # i /\ BreachesTarget(Slos[j])

\* a record without upstream target whose 7-day value is below the target of
\* the other record, listed as Passing in a run that reports no breach
C16_Witness ==
    /\ Built
    /\ output.hasBreach = FALSE
    /\ \E i, j \in 1..Len(Slos) :
          /\ sloTarget[Slos[i].id] = Undefined
          /\ Slos[i].target = Num(0)
          /\ Slos[j].target = Num(TargetValue)
          /\ RawStatus(Slos[i].day7) = Num(TargetValue - 1)
          /\ RawStatus(Slos[j].day7) = Num(TargetValue)
          /\ InList(passingSLOs, Slos[i])


\* C17: every emitted record has the four slots day90, day30, day7 and
\* current; each is null when the window's fetch returned no record of the SLO
\* (or failed) and otherwise a status record holding the fetched percentage.
C17_FourWindowSlots ==
    Fetched =>
        /\ Len(Slos) = Len(sloIds)
        /\ \A i \in 1..Len(Slos) :
               /\ SeqToSet(timePeriods) \subseteq DOMAIN Slos[i]
               /\ \A p \in SeqToSet(timePeriods) :
                      LET slot == Slos[i][p]
                          rec == Find(PeriodResults(p), Slos[i].id)
                      IN  IF Found(rec)
                          THEN /\ slot.t = "object"
                               /\ slot.status = rec.evaluatedPercentage
                          ELSE slot = Null

\* the 90-day request failed and the 7-day request returned one of the two
\* SLOs: the records still have all four slots, some of them null
C17_Witness ==
    /\ Fetched
    /\ Len(PeriodResults("day90")) = 0
    /\ Len(PeriodResults("day7")) = 1
    /\ \E i, j \in 1..Len(Slos) :
          /\ Slos[i].day90 = Null /\ Slos[i].day7 = Null
          /\ Slos[j].day90 = Null /\ Slos[j].day7 # Null
          /\ Slos[j].current # Null


-----------------------------------------------------------------------------
(* The build task and its input *)

-----------------------------------------------------------------------------
(* The user action section of the email *)

Metrics == output.userActionMetrics

HasMetrics(ua) == ua \in DOMAIN Metrics

\* combined custom, JavaScript and request errors of an action with metrics
CombinedErrors(ua) ==
    Metrics[ua].customErrors + Metrics[ua].jsErrors + Metrics[ua].requestErrors

\* at least 10 combined errors, or an average duration of at least 3000 ms
OverThreshold(ua) ==
    HasMetrics(ua) /\ (CombinedErrors(ua) >= 10 \/ Metrics[ua].avgDuration >= 3000)

\* errors * 10 + average duration in seconds, in thousandths
Score(ua) == CombinedErrors(ua) * 10000 + Metrics[ua].avgDuration

\* positions of an SLO's user actions that need attention
NeedingAttention(slo) ==
    {k \in 1..Len(slo.userAction) : OverThreshold(slo.userAction[k])}

CountIn(seq, x) == Cardinality({k \in 1..Len(seq) : seq[k] = x})

\* C19: the table of an SLO lists at most 3 user actions; they are the
\* actions of that SLO with the 3 highest attention scores among those needing
\* attention, in non-increasing order of score.
C19_TopThreeByScore ==
    Built =>
        \A i \in 1..Len(Slos) :
            LET slo == Slos[i]
                table == userActionTables[i]
                needing == NeedingAttention(slo)
                listed(ua) == CountIn(table, ua)
                candidates(ua) == Cardinality({k \in needing : slo.userAction[k] = ua})
            IN  ~slo.isSynthetic =>
                /\ Len(table) <= 3
                /\ Len(table) = (IF Cardinality(needing) < 3
                                 THEN Cardinality(needing) ELSE 3)
                /\ \A k \in 1..Len(table) : listed(table[k]) <= candidates(table[k])
                /\ \A k, l \in 1..Len(table) :
                       k < l => Score(table[k]) >= Score(table[l])
                /\ \A k \in needing :
                       listed(slo.userAction[k]) < candidates(slo.userAction[k]) =>
                           \A l \in 1..Len(table) :
                               Score(table[l]) >= Score(slo.userAction[k])

\* four actions need attention and the one the filter names last has the
\* highest score: it heads the table, the scores fall from row to row, and of
\* the two actions with the lowest score the one named later is left out
C19_Witness ==
    /\ Built
    /\ \E i \in 1..Len(Slos) :
          LET slo == Slos[i]
              table == userActionTables[i]
          IN  /\ Len(slo.userAction) = 4
              /\ Cardinality(NeedingAttention(slo)) = 4
              /\ table = <<slo.userAction[4], slo.userAction[2], slo.userAction[1]>>
              /\ Score(table[1]) > Score(table[2])
              /\ Score(table[2]) > Score(table[3])
              /\ Score(slo.userAction[3]) = Score(table[3])

-----------------------------------------------------------------------------
(* Batching of the SLO API requests *)

RECURSIVE Concat(_)
Concat(seqs) == IF Len(seqs) = 0 THEN <<>> ELSE Head(seqs) \o Concat(Tail(seqs))

\* what batchArray promises for one batch size
WellBatched(array, batchSize) ==
    LET batches == batchArray(array, batchSize)
    IN  /\ Concat(batches) = array
        /\ \A k \in 1..Len(batches) :
               /\ Len(batches[k]) >= 1
               /\ Len(batches[k]) <= batchSize
               /\ k < Len(batches) => Len(batches[k]) = batchSize

\* C21: every SLO API request names at most SLO_BATCH_SIZE ids, and the
\* batches of batchArray, concatenated in order, are the configured sloIds:
\* no id lost, duplicated or reordered, no batch empty, every batch but the
\* last of exactly the batch size.
C21_BatchesPartitionSloIds ==
    /\ \A r \in 1..Len(sloRequests) :
           /\ Len(sloRequests[r].ids) <= SLO_BATCH_SIZE
           /\ sloRequests[r].ids = sloBatches[sloRequests[r].batchIndex + 1]
    /\ WellBatched(sloIds, SLO_BATCH_SIZE)
    /\ WellBatched(sloIds, USQL_BATCH_SIZE)
    /\ WellBatched(sloIds, 1)

\* one SLO more than a batch: two batches, the last with a single id, each
\* requested for each of the four periods
C21_Witness ==
    /\ Fetched
    /\ Len(sloIds) = SLO_BATCH_SIZE + 1
    /\ Len(sloBatches) = 2
    /\ Len(sloBatches[1]) = SLO_BATCH_SIZE
    /\ Len(sloBatches[2]) = 1
    /\ Len(sloRequests) = 2 * Len(timePeriods)
    /\ sloRequests[Len(sloRequests)].ids = <<sloIds[Len(sloIds)]>>


-----------------------------------------------------------------------------
(* Failing SLO API requests *)

\* some window of the run holds a record of the id
HasWindowData(id) ==
    \E p \in SeqToSet(timePeriods) : Found(Find(PeriodResults(p), id))

\* C22: whatever requests throw, the script goes on (while it runs, either a
\* request of the SLO loop is due or the loop is over and the rest of the
\* script follows), and the returned slos list has exactly one record per
\* configured id, in the configured order; an id without data in any window
\* has name "Unknown SLO", target 0 and four null windows.
C22_OneRecordPerId ==
    /\ fetchState = "running" =>
           \/ SloLoopDone
           \/ periodIdx \in 1..Len(timePeriods) /\ batchIndex \in 0..(Len(sloBatches) - 1)
    /\ Fetched =>
           /\ Len(Slos) = Len(sloIds)
           /\ \A i \in 1..Len(sloIds) :
                  /\ Slos[i].id = sloIds[i]
                  /\ ~HasWindowData(sloIds[i]) =>
                         /\ Slos[i].name = "Unknown SLO"
                         /\ Slos[i].target = Num(0)
                         /\ NoWindowData(Slos[i])

\* every request of the first batch threw and a request of the second batch
\* succeeded: twenty records of unknown SLOs followed by a known one
C22_Witness ==
    /\ Fetched
    /\ Len(sloIds) = SLO_BATCH_SIZE + 1
    /\ \A i \in 1..SLO_BATCH_SIZE :
           /\ Slos[i].id = sloIds[i]
           /\ Slos[i].name = "Unknown SLO"
           /\ NoWindowData(Slos[i])
    /\ Slos[SLO_BATCH_SIZE + 1].name # "Unknown SLO"
    /\ Slos[SLO_BATCH_SIZE + 1].day7 # Null


\* the n-th request of a run: periods in the order of timePeriods, batch
\* indexes ascending within a period
ExpectedPeriod(n) == timePeriods[((n - 1) \div Len(sloBatches)) + 1]
ExpectedBatchIndex(n) == (n - 1) % Len(sloBatches)

\* the records of a batch are missing from a period's results; the SLO API of
\* SpecBatch answers with every id of the batch, so the request threw
RequestFailed(period, k) ==
    \A j \in 1..Len(sloBatches[k]) :
        ~Found(Find(PeriodResults(period), sloBatches[k][j]))

\* C23: every (time period, batch) pair is requested exactly once per run, in
\* the order day90, day30, day7, current and batch index ascending within a
\* period, whether or not earlier requests failed.
C23_RequestOrder ==
    /\ \A n \in 1..Len(sloRequests) :
           /\ n <= Len(timePeriods) * Len(sloBatches)
           /\ sloRequests[n].period = ExpectedPeriod(n)
           /\ sloRequests[n].batchIndex = ExpectedBatchIndex(n)
    /\ (fetchState = "running" /\ ~SloLoopDone) =>
           Len(sloRequests) = (periodIdx - 1) * Len(sloBatches) + batchIndex
    /\ (Fetched \/ (fetchState = "running" /\ SloLoopDone)) =>
           Len(sloRequests) = Len(timePeriods) * Len(sloBatches)

\* the first request of the run and the last but one threw, the requests
\* between them and the last one were answered, and all eight were issued once
C23_Witness ==
    /\ Fetched
    /\ Len(sloBatches) = 2
    /\ Len(sloRequests) = 8
    /\ RequestFailed("day90", 1) /\ ~RequestFailed("day90", 2)
    /\ ~RequestFailed("day30", 1) /\ ~RequestFailed("day7", 2)
    /\ RequestFailed("current", 1) /\ ~RequestFailed("current", 2)


\* C24: when the 7-day request of a batch fails, every SLO of the batch is
\* reported as NoData: it is not listed as Failing and hasBreach is true only
\* because of an SLO that has a 7-day value, whatever its 90-day, 30-day and
\* current values are.
C24_FailedDay7IsNoData ==
    Fetched =>
        \A k \in 1..Len(sloBatches) :
            RequestFailed("day7", k) =>
                \A i \in 1..Len(Slos) :
                    Includes(sloBatches[k], Slos[i].id) =>
                        /\ Slos[i].day7 = Null
                        /\ Built => /\ InList(noDataSLOs, Slos[i])
                                    /\ ~InList(failingSLOs, Slos[i])
                                    /\ ~InList(passingSLOs, Slos[i])
                        /\ output.hasBreach =>
                               \E j \in 1..Len(Slos) :
                                   /\ Slos[j].day7 # Null
                                   /\ BreachesTarget(Slos[j])

\* the 7-day request failed for both batches while the 90-day, 30-day and
\* current values of every SLO are below its target: no breach, all NoData
C24_Witness ==
    /\ Built
    /\ Len(sloBatches) = 2
    /\ RequestFailed("day7", 1) /\ RequestFailed("day7", 2)
    /\ \A i \in 1..Len(Slos) :
           /\ Slos[i].day90 # Null /\ Slos[i].day30 # Null
           /\ Slos[i].current # Null
           /\ Slos[i].current.status.v < Slos[i].target.v
    /\ output.hasBreach = FALSE
    /\ breachStatus = "OK"
    /\ Len(noDataSLOs) = Len(Slos)


-----------------------------------------------------------------------------
(* The user actions queried by fetch_slo_data *)

\* the names of the USQL IN clauses, in the order they were sent
Queried == Concat(usqlRequests)

\* the user actions parsed from the non-synthetic SLOs of the report, in
\* report order, repetitions included
RECURSIVE ParsedFrom(_)
ParsedFrom(i) ==
    IF i > Len(Slos) THEN <<>>
    ELSE (IF Slos[i].isSynthetic THEN <<>> ELSE Slos[i].userAction)
         \o ParsedFrom(i + 1)

FirstPos(seq, x) ==
    CHOOSE k \in 1..Len(seq) : seq[k] = x /\ \A m \in 1..(k - 1) : seq[m] # x

\* C25: the user actions queried contain no duplicates, are exactly the
\* actions parsed from non-synthetic SLOs, in the order of their first
\* occurrence, and getEntities is called exactly once for each of them.
C25_QueriedActionsUnique ==
    Fetched =>
        LET parsed == ParsedFrom(1) IN
        /\ \A i, j \in 1..Len(Queried) : i # j => Queried[i] # Queried[j]
        /\ \A i \in 1..Len(Queried) : Includes(parsed, Queried[i])
        /\ \A k \in 1..Len(parsed) : Includes(Queried, parsed[k])
        /\ \A i, j \in 1..Len(Queried) :
               i < j => FirstPos(parsed, Queried[i]) < FirstPos(parsed, Queried[j])
        /\ Len(entityLookups) = Len(Queried)
        /\ \A i \in 1..Len(Queried) : CountIn(entityLookups, Queried[i]) = 1

\* all three SLOs were fetched: the action named twice by "a" and again by "b"
\* is queried once, the action of the synthetic SLO not at all, and an entity
\* was found for a Key User Action
C25_Witness ==
    /\ Fetched
    /\ Slos[1].userAction = <<ActionNames[1], ActionNames[2], ActionNames[1]>>
    /\ Slos[2].isSynthetic /\ Slos[2].userAction = <<ActionNames[3]>>
    /\ Slos[3].userAction = <<ActionNames[2], ActionNames[4], ActionNames[1]>>
    /\ Queried = <<ActionNames[1], ActionNames[2], ActionNames[4]>>
    /\ entityLookups = Queried
    /\ DOMAIN output.userActionEntities = {ActionNames[1]}

====
